---- MODULE Spec2Model ----
(***************************************************************************)
(* Model of the personal-statement generator (backend/app/main.py and      *)
(* frontend/app.py).                                                       *)
(*                                                                         *)
(* Part 1: call_ai_with_retry_stream, the streaming call wrapper.          *)
(* Part 2: read_document and read_school_info, the file readers.           *)
(* Part 3: the sessions of the backend: /analyze_stream, /generate_ps and  *)
(*         /cleanup requests of several clients over app_state.temp_files  *)
(*         and the files of the temporary directory.                       *)
(* Part 4: one browser session: the front end's generate run and the       *)
(*         event stream /analyze_stream answers it with.                   *)
(* Part 5: the /upload requests of several clients over the uploads        *)
(*         directory.                                                      *)
(* Part 6: split_text_into_chunks.                                         *)
(* Part 7: process_materials and analyze_text_chunks.                      *)
(* Part 8: extract_majors_from_school_info.                                *)
(*                                                                         *)
(* Strings of the program that are not ASCII are written in pinyin:        *)
(*   zaidu_zhuanye, benke_zhuanye, dangqian_zhuanye  current-major headers *)
(*   shenqing_zhuanye, mubiao_zhuanye, yixiang_zhuanye  target-major ones  *)
(*   A_zhuanye, B_zhuanye                            the default majors    *)
(***************************************************************************)
EXTENDS Integers, Sequences, FiniteSets, TLC

VARIABLES
    \* ---- call_ai_with_retry_stream (main.py 202-324) ----
    api_model,          \* api_config["model"]
    max_retries,        \* parameter max_retries
    retry_count,        \* local retry_count
    last_error,         \* local last_error ("None" before any failure)
    call_pc,            \* "loop" | "stream" | "done" (return) | "raised" (line 324)
    content_received,   \* local content_received of the running attempt
    last_content_time,  \* local last_content_time of the running attempt
    now,                \* time.time(), in seconds since the attempt began
    chunks_seen,        \* chunks the endpoint has sent during this call
    yielded,            \* everything the generator has yielded to its caller
    \* history of a call made on its own (Part 1), for the properties to read:
    attempt_from,       \* Len(yielded) when the running attempt started
    delivered,          \* the chunks the endpoint delivered in the running attempt
    last_text_time,     \* when the endpoint last delivered non-empty text
    call_log,           \* attempts, failures and sleeps of the call, in order
    raised_error,       \* the error named by the final exception's message
    \* ---- read_document (main.py 378-454) ----
    doc_file,           \* the file at file_path
    doc_result,         \* what the call returned or raised
    doc_pc,             \* "call" | "returned"
    \* ---- read_school_info (main.py 456-528) ----
    school_file,        \* the file at file_path
    school_result,      \* what the call returned or raised
    school_pc,          \* "call" | "returned"
    \* ---- sessions (main.py 181-199, 693-952, 1133-1146) ----
    temp_files,         \* app.state.app_state.temp_files: session id -> paths
    fs,                 \* the temporary directory: path -> content (0: no file)
    clock_ms,           \* int(time.time() * 1000)
    req,                \* per client: its /analyze_stream request in progress
    announced,          \* the session ids sent to a client in a session_id event
    gen_result,         \* the answer, when the last request was to /generate_ps
    cleanup_result,     \* the answer, when the last request was to /cleanup
    uploaded,           \* per session id: what the requests registering it uploaded
    running,            \* the application has not been shut down
    \* ---- /analyze_stream response (main.py 724-809) ----
    an_pc,              \* "idle" | "received" | "calling" | "ended"
    an_upload,          \* the suffixes of the run's uploads
    an_session_id,      \* session_id of the request
    events,             \* the events of the response, in order
    content_generated,  \* local content_generated of generate()
    \* ---- front end (frontend/app.py 134-162, 712-827) ----
    fe_pc,              \* "idle" | "analyzing" | "generating" | "complete" | "failed"
    fe_pos,             \* events of the response the front end has processed
    st_session_id,      \* st.session_state.session_id
    analysis_content,   \* local analysis_content
    generation_data,    \* the last /generate_ps request sent
    runs,               \* generate runs started in this browser session
    \* ---- /upload (main.py 954-1059) ----
    up_fs,              \* the uploads directory: path -> the file there
    up_req,             \* per client: its /upload request
    \* ---- split_text_into_chunks (main.py 558-582) ----
    split_text,         \* argument text, a sequence of characters
    split_max,          \* argument max_chunk_size
    split_chunks,       \* the list returned
    split_pc,           \* "call" | "returned"
    \* ---- process_materials (main.py 585-690) ----
    pm_pc,              \* "idle" | "call" | "whole" | "chunks" | "done"
    pm_len,             \* len(combined_text)
    pm_answers,         \* per request to the model, in order: what it would answer
    pm_chunks,          \* number of chunks of the combined text
    pm_index,           \* chunks analyze_text_chunks has been through
    analysis_results,   \* local analysis_results of analyze_text_chunks
    pm_asked,           \* requests that reached the language model
    pm_result,          \* what process_materials returned or raised
    \* ---- extract_majors_from_school_info (main.py 535-556) ----
    majors_data,        \* argument school_info_data
    majors_result,      \* the pair returned
    majors_pc           \* "idle" | "call" | "returned"

retryVars == <<api_model, max_retries, retry_count, last_error, call_pc,
               content_received, last_content_time, now, chunks_seen, yielded,
               attempt_from, delivered, last_text_time, call_log, raised_error>>

docVars == <<doc_file, doc_result, doc_pc>>

schoolVars == <<school_file, school_result, school_pc>>

sessVars == <<temp_files, fs, clock_ms, req, announced, gen_result, cleanup_result,
              uploaded, running>>

streamVars == <<an_pc, an_upload, an_session_id, events, content_generated>>

feVars == <<fe_pc, fe_pos, st_session_id, analysis_content, generation_data, runs>>

uploadVars == <<up_fs, up_req>>

chunkVars == <<split_text, split_max, split_chunks, split_pc>>

pmVars == <<pm_pc, pm_len, pm_answers, pm_chunks, pm_index, analysis_results, pm_asked,
            pm_result>>

majorVars == <<majors_data, majors_result, majors_pc>>

vars == <<retryVars, docVars, schoolVars, sessVars, streamVars, feVars, uploadVars,
          chunkVars, pmVars, majorVars>>

-----------------------------------------------------------------------------
(* Bounds of the model. *)
MaxChunks == 2
MaxParagraphs == 2
MaxRows == 3
NumClients == 2
MaxClock == 2
MaxRuns == 2
MaxText == 5
MaxSize == 3
MaxParts == 3

(* Program constants. *)
DefaultMaxRetries == 3
StallLimit == 180
MAX_CHUNK_SIZE == 8000

Models == {"deepseek-reasoner", "gpt-4o"}

(* The environment's time step: half the stall limit, so that gaps of 0, 90,
   180 (not yet a stall) and 270 seconds (a stall) all occur. *)
Delays == {StallLimit \div 2}

RECURSIVE Pow2(_)
Pow2(n) == IF n = 0 THEN 1 ELSE 2 * Pow2(n - 1)

(* A field of a chunk's delta: absent/None, the empty string, or text. *)
Truthy(v) == v \notin {"None", ""}

(* The chunks an endpoint can send: delta.reasoning_content, delta.content.
   A deepseek-reasoner chunk carries reasoning text, answer text or neither,
   never both; the other models have no reasoning_content, and their content
   is absent, the empty string or text. *)
Chunks(m) ==
    IF m = "deepseek-reasoner"
    THEN {ch \in [reasoning_content : {"None", "r"}, content : {"None", "c"}] :
            ch.reasoning_content = "None" \/ ch.content = "None"}
    ELSE [reasoning_content : {"None"}, content : {"None", "", "c"}]

(* The non-empty text fragments a chunk carries, in the order of its fields. *)
FragmentsOf(chunk) ==
    (IF Truthy(chunk.reasoning_content) THEN <<chunk.reasoning_content>> ELSE <<>>)
    \o (IF Truthy(chunk.content) THEN <<chunk.content>> ELSE <<>>)

RECURSIVE Fragments(_)
Fragments(chunks) ==
    IF chunks = <<>> THEN <<>>
    ELSE FragmentsOf(Head(chunks)) \o Fragments(Tail(chunks))

(* What the loop body yields for one chunk that passed the stall check. *)
DeepSeekYield(chunk) ==
    IF Truthy(chunk.reasoning_content) THEN <<chunk.reasoning_content>>
    ELSE IF Truthy(chunk.content) THEN <<chunk.content>>
    ELSE <<>>

OtherYield(chunk) ==
    IF chunk.content # "None" THEN <<chunk.content>> ELSE <<>>

ChunkYield(m, chunk) ==
    IF m = "deepseek-reasoner" THEN DeepSeekYield(chunk) ELSE OtherYield(chunk)

(* The stall check at the top of the loop body. *)
Stalled(current_time, last_time) == current_time - last_time > StallLimit

(* while retry_count < max_retries *)
LoopGuard(rc, mr) == rc < mr

(* retry_count += 1 *)
NextRetryCountSkip(rc) == rc
NextRetryCount(rc) == rc + 1

(* if retry_count < max_retries: sleep and continue, else break *)
ShouldRetryInclusive(rc, mr) == rc <= mr
ShouldRetry(rc, mr) == rc < mr

(* wait_time = 2 ** retry_count *)
wait_timeOffByOne(rc) == Pow2(rc - 1)
wait_time(rc) == Pow2(rc)

Attempt(n) == [ev |-> "attempt", n |-> n, err |-> "None"]

(* The history variables follow a call made on its own; a call made from
   inside a request (Part 4) leaves them as they are. *)
Recorded(new, old) == IF an_pc = "idle" THEN new ELSE old

(* The except clause of the retry loop, for an attempt that failed with e;
   log is the call's log up to the failure. The sleep is entered in the log;
   the clock is read again only after the next attempt has set it. *)
Fail(e, log) ==
    LET rc == NextRetryCount(retry_count) IN
    /\ now' = now
    /\ retry_count' = rc
    /\ last_error' = e
    /\ IF ShouldRetry(rc, max_retries)
       THEN /\ call_log' = Recorded(log \o <<[ev |-> "fail", n |-> rc, err |-> e],
                                                  [ev |-> "sleep", n |-> wait_time(rc),
                                                   err |-> "None"]>>, call_log)
            /\ call_pc' = "loop"
            /\ raised_error' = raised_error
       ELSE /\ call_log' = Recorded(Append(log, [ev |-> "fail", n |-> rc, err |-> e]),
                                      call_log)
            /\ call_pc' = "raised"
            /\ raised_error' = e

RetryInit ==
    /\ api_model \in Models
    /\ max_retries \in 1..DefaultMaxRetries
    /\ retry_count = 0
    /\ last_error = "None"
    /\ call_pc = "loop"
    /\ content_received = FALSE
    /\ last_content_time = 0
    /\ now = 0
    /\ chunks_seen = 0
    /\ yielded = <<>>
    /\ attempt_from = 0
    /\ delivered = <<>>
    /\ last_text_time = 0
    /\ call_log = <<>>
    /\ raised_error = "None"

(* client.chat.completions.create(...) returns a stream. *)
CreateStreamCore ==
    /\ call_pc = "loop"
    /\ LoopGuard(retry_count, max_retries)
    /\ call_pc' = "stream"
    /\ content_received' = FALSE
    /\ now' = 0
    /\ last_content_time' = 0
    /\ last_text_time' = 0
    /\ delivered' = <<>>
    /\ attempt_from' = Recorded(Len(yielded), attempt_from)
    /\ call_log' = Recorded(Append(call_log, Attempt(retry_count + 1)), call_log)
    /\ UNCHANGED <<api_model, max_retries, retry_count, last_error,
                   chunks_seen, yielded, raised_error>>

(* client.chat.completions.create(...) raises. *)
CreateFailsCore ==
    /\ call_pc = "loop"
    /\ LoopGuard(retry_count, max_retries)
    /\ Fail("api_error", Append(call_log, Attempt(retry_count + 1)))
    /\ attempt_from' = Recorded(Len(yielded), attempt_from)
    /\ delivered' = <<>>
    /\ UNCHANGED <<api_model, max_retries, content_received, last_content_time,
                   chunks_seen, yielded, last_text_time>>

(* Time passes while the loop waits for the stream's next item. *)
TickCore(d) ==
    /\ call_pc = "stream"
    /\ now - last_content_time <= StallLimit
    /\ now' = now + d
    /\ UNCHANGED <<api_model, max_retries, retry_count, last_error, call_pc,
                   content_received, last_content_time, chunks_seen, yielded,
                   attempt_from, delivered, last_text_time, call_log, raised_error>>

(* The stream delivers a chunk: one pass through the loop body. *)
ChunkArrivesCore(chunk) ==
    /\ call_pc = "stream"
    /\ chunks_seen < MaxChunks
    /\ chunks_seen' = chunks_seen + 1
    /\ delivered' = Recorded(Append(delivered, chunk), delivered)
    /\ last_text_time' =
          Recorded(IF FragmentsOf(chunk) # <<>> THEN now ELSE last_text_time,
                   last_text_time)
    /\ IF Stalled(now, last_content_time)
       THEN /\ Fail("stalled", call_log)
            /\ UNCHANGED <<content_received, last_content_time, yielded>>
       ELSE /\ yielded' = yielded \o ChunkYield(api_model, chunk)
            /\ IF ChunkYield(api_model, chunk) # <<>>
               THEN content_received' = TRUE /\ last_content_time' = now
               ELSE UNCHANGED <<content_received, last_content_time>>
            /\ UNCHANGED <<retry_count, last_error, call_pc, now, call_log,
                           raised_error>>
    /\ UNCHANGED <<api_model, max_retries, attempt_from>>

(* The stream ends: the loop is left, content_received decides. *)
StreamEndsCore ==
    /\ call_pc = "stream"
    /\ IF ~content_received
       THEN Fail("no_content", call_log)
       ELSE /\ call_pc' = "done"
            /\ UNCHANGED <<retry_count, last_error, now, call_log, raised_error>>
    /\ UNCHANGED <<api_model, max_retries, content_received, last_content_time,
                   chunks_seen, yielded, attempt_from, delivered, last_text_time>>

(* Iterating the stream raises (network error, the client's 300 s timeout). *)
StreamRaisesCore ==
    /\ call_pc = "stream"
    /\ Fail("api_error", call_log)
    /\ UNCHANGED <<api_model, max_retries, content_received, last_content_time,
                   chunks_seen, yielded, attempt_from, delivered, last_text_time>>

(* The variables of the wrapper while no call is being modelled. *)
RetryIdle ==
    /\ api_model = "deepseek-reasoner"
    /\ max_retries = DefaultMaxRetries
    /\ retry_count = 0
    /\ last_error = "None"
    /\ call_pc = "idle"
    /\ content_received = FALSE
    /\ last_content_time = 0
    /\ now = 0
    /\ chunks_seen = 0
    /\ yielded = <<>>
    /\ attempt_from = 0
    /\ delivered = <<>>
    /\ last_text_time = 0
    /\ call_log = <<>>
    /\ raised_error = "None"

(* The call is over and its locals are gone. *)
CallGone ==
    /\ api_model' = "deepseek-reasoner"
    /\ max_retries' = DefaultMaxRetries
    /\ retry_count' = 0
    /\ last_error' = "None"
    /\ call_pc' = "idle"
    /\ content_received' = FALSE
    /\ last_content_time' = 0
    /\ now' = 0
    /\ chunks_seen' = 0
    /\ yielded' = <<>>
    /\ attempt_from' = 0
    /\ delivered' = <<>>
    /\ last_text_time' = 0
    /\ call_log' = <<>>
    /\ raised_error' = "None"

(* The wrapper called on its own. *)
OutsideCall == <<docVars, schoolVars, uploadVars, sessVars, streamVars, feVars,
                 chunkVars, pmVars, majorVars>>

CreateStream == CreateStreamCore /\ UNCHANGED OutsideCall
CreateFails == CreateFailsCore /\ UNCHANGED OutsideCall
Tick(d) == TickCore(d) /\ UNCHANGED OutsideCall
ChunkArrives(chunk) == ChunkArrivesCore(chunk) /\ UNCHANGED OutsideCall
StreamEnds == StreamEndsCore /\ UNCHANGED OutsideCall
StreamRaises == StreamRaisesCore /\ UNCHANGED OutsideCall

RetryNext ==
    \/ CreateStream
    \/ CreateFails
    \/ \E d \in Delays : Tick(d)
    \/ \E chunk \in Chunks(api_model) : ChunkArrives(chunk)
    \/ StreamEnds
    \/ StreamRaises


-----------------------------------------------------------------------------
(* Part 2a: read_document.                                                 *)

(* Sequences over S of length lo..hi. *)
SeqsOf(S, lo, hi) == UNION {[1..n -> S] : n \in lo..hi}

(* str.strip(): a string of white space strips to the empty string; the
   other strings of the model carry no white space at their ends. *)
Strip(s) == IF s = " " THEN "" ELSE s

NoDocument == [paragraphs |-> <<>>, tables |-> <<>>]

(* A text is a sequence of pieces; a Word document has paragraphs and table
   rows (all rows of all tables, in order), a row being its cells' texts. *)
ParagraphTexts == {"", " ", "P", "Q"}
CellTexts == {"", "x", "y"}
Documents ==
    [paragraphs : SeqsOf(ParagraphTexts, 0, MaxParagraphs),
     tables : SeqsOf([1..2 -> CellTexts], 0, 1)]

DocFiles ==
    [ext : {".txt"}, exists : BOOLEAN, word_ok : {TRUE},
     text : SeqsOf({"P", "Q", "\n"}, 0, MaxParagraphs), document : {NoDocument}]
    \cup
    [ext : {".docx"}, exists : BOOLEAN, word_ok : {TRUE},
     text : {<<>>}, document : Documents]
    \cup
    [ext : {".doc"}, exists : BOOLEAN, word_ok : BOOLEAN,
     text : {<<>>}, document : Documents]
    \cup
    [ext : {".pdf"}, exists : BOOLEAN, word_ok : {TRUE},
     text : {<<>>}, document : {NoDocument}]

Returned(v) == [ok |-> TRUE, value |-> v, error |-> "None"]
Raised(e) == [ok |-> FALSE, value |-> <<>>, error |-> e]

(* sep.join(items), as a sequence of pieces. *)
RECURSIVE Join(_, _)
Join(sep, items) ==
    IF items = <<>> THEN <<>>
    ELSE IF Len(items) = 1 THEN <<items[1]>>
    ELSE <<items[1], sep>> \o Join(sep, Tail(items))

(* [paragraph.text for paragraph in doc.paragraphs if paragraph.text.strip()] *)
paragraphs_text(document) ==
    SelectSeq(document.paragraphs, LAMBDA t : Strip(t) # "")

(* One " | "-joined line per table row that has a non-empty cell. *)
row_text(row) == SelectSeq([i \in 1..Len(row) |-> Strip(row[i])], LAMBDA t : t # "")

tables_text(document) ==
    LET rows == SelectSeq(document.tables, LAMBDA row : row_text(row) # <<>>)
    IN [i \in 1..Len(rows) |-> Join(" | ", row_text(rows[i]))]

(* The text of a .doc/.docx file: paragraphs, then the table lines. *)
DocumentText(document) ==
    Join("\n\n", paragraphs_text(document))
    \o (IF tables_text(document) # <<>>
        THEN <<"\n\nbiaoge_neirong:\n">> \o Join("\n", tables_text(document))
        ELSE <<>>)

(* The .txt branch binds text only; `if tables_text:` after the branches then
   reads a local that was never bound, which raises UnboundLocalError. *)
TxtTablesTextBoundAnyway(f) == Returned(f.text)
TxtBranch(f) == Raised("duqu_wendang_shibai: UnboundLocalError tables_text")

read_document(f) ==
    IF ~f.exists THEN Raised("chuli_wendang_shi_chucuo: wenjian_bu_cunzai")
    ELSE IF f.ext = ".txt" THEN TxtBranch(f)
    ELSE IF f.ext = ".doc" THEN
        IF f.word_ok THEN Returned(DocumentText(f.document))
        ELSE Raised("duqu_wendang_shibai: wendang_zhuanhuan_shibai")
    ELSE IF f.ext = ".docx" THEN Returned(DocumentText(f.document))
    ELSE Raised("duqu_wendang_shibai: bu_zhichi_de_wenjian_geshi")

DocIdle ==
    /\ doc_file = [ext |-> ".docx", exists |-> FALSE, word_ok |-> TRUE,
                   text |-> <<>>, document |-> NoDocument]
    /\ doc_result = Raised("None")
    /\ doc_pc = "idle"

DocInit ==
    /\ doc_file \in DocFiles
    /\ doc_result = Raised("None")
    /\ doc_pc = "call"

ReadDocument ==
    /\ doc_pc = "call"
    /\ doc_result' = read_document(doc_file)
    /\ doc_pc' = "returned"
    /\ UNCHANGED <<doc_file, retryVars, schoolVars, sessVars, streamVars, feVars,
                   uploadVars, chunkVars, pmVars, majorVars>>

-----------------------------------------------------------------------------
(* Part 2b: read_school_info.                                              *)

CurrentHeaders == {"zaidu_zhuanye", "benke_zhuanye", "dangqian_zhuanye"}
TargetHeaders == {"shenqing_zhuanye", "mubiao_zhuanye", "yixiang_zhuanye"}
KeyFields == CurrentHeaders \cup TargetHeaders

DefaultData == [k \in {"zaidu_zhuanye", "shenqing_zhuanye"} |->
                  IF k = "zaidu_zhuanye" THEN "A_zhuanye" ELSE "B_zhuanye"]

(* The cells of the model's files: empty, two headers, two values. *)
SchoolCells == {"", "zaidu_zhuanye", "mubiao_zhuanye", "v", "w"}
(* The files of the model have two columns; the scan treats every column
   alike. *)
SchoolColumns == {1, 2}
SchoolCols == Cardinality(SchoolColumns)

(* A file is its rows as the parser sees them, each of SchoolCols cells; a
   line of a .txt file is its comma-separated fields. *)
SchoolFiles ==
    [ext : {".txt", ".csv"}, exists : {TRUE},
     rows : SeqsOf([1..SchoolCols -> SchoolCells], 1, MaxRows)]
    \cup
    [ext : {".xls", ".xlsx"}, exists : {TRUE},
     rows : SeqsOf([1..SchoolCols -> SchoolCells], 1, SchoolCols)]
    \cup
    [ext : {".txt", ".csv", ".xls", ".xlsx", ".pdf"}, exists : BOOLEAN,
     rows : {<<[i \in 1..SchoolCols |-> "zaidu_zhuanye"],
               [i \in 1..SchoolCols |-> "v"]>>}]

(* pd.read_csv / pd.read_excel with their defaults: the file's first row
   becomes df.columns, the rows after it are the data df.iloc addresses. *)
FirstRowIsData(rows) == rows
ReadTable(rows) == Tail(rows)

(* dict[key] = value *)
SetItem(d, key, value) == (key :> value) @@ d

(* if next_value: *)
SaveEmptyToo(next_value) == TRUE
SaveValue(next_value) == next_value # ""

(* The body of the two loops for cell (row, col), 0-based as in the code. *)
ScanCell(df, row, col, formatted_data) ==
    LET cell_value == Strip(df[row + 1][col + 1]) IN
    IF cell_value \in KeyFields /\ row + 1 < Len(df)
    THEN LET next_value == Strip(df[row + 2][col + 1]) IN
         IF SaveValue(next_value)
         THEN IF cell_value \in CurrentHeaders
              THEN SetItem(formatted_data, "zaidu_zhuanye", next_value)
              ELSE SetItem(formatted_data, "shenqing_zhuanye", next_value)
         ELSE formatted_data
    ELSE formatted_data

(* for row in range(df.shape[0]): for col in range(df.shape[1]): from cell k
   on, in row-major order. *)
RECURSIVE ScanFrom(_, _, _)
ScanFrom(df, k, formatted_data) ==
    IF k >= Len(df) * SchoolCols THEN formatted_data
    ELSE ScanFrom(df, k + 1,
                  ScanCell(df, k \div SchoolCols, k % SchoolCols, formatted_data))

(* The .csv/.xls/.xlsx branch. *)
TableBranch(rows) ==
    LET formatted_data == ScanFrom(ReadTable(rows), 0, <<>>) IN
    IF DOMAIN formatted_data = {} THEN DefaultData ELSE formatted_data

(* The .txt branch: formatted_data[line[0]] = line[1] for each line. *)
RECURSIVE TxtLines(_, _)
TxtLines(lines, formatted_data) ==
    IF lines = <<>> THEN formatted_data
    ELSE TxtLines(Tail(lines),
                  IF Len(Head(lines)) >= 2
                  THEN SetItem(formatted_data, Strip(Head(lines)[1]), Strip(Head(lines)[2]))
                  ELSE formatted_data)

(* line.strip() is non-empty for a line with a comma in it. *)
SchoolTxtBranch(rows) == TxtLines(rows, <<>>)

(* f.ext is file_ext, the suffix of the path in lower case. *)
read_school_infoAnyFormat(f) ==
    IF ~f.exists THEN Raised("chuli_biaoge_shi_chucuo: wenjian_bu_cunzai")
    ELSE IF f.ext = ".txt" THEN Returned(SchoolTxtBranch(f.rows))
    ELSE Returned(TableBranch(f.rows))
read_school_info(f) ==
    IF ~f.exists THEN Raised("chuli_biaoge_shi_chucuo: wenjian_bu_cunzai")
    ELSE IF f.ext = ".txt" THEN Returned(SchoolTxtBranch(f.rows))
    ELSE IF f.ext \in {".csv", ".xls", ".xlsx"} THEN Returned(TableBranch(f.rows))
    ELSE Raised("duqu_biaoge_shibai: bu_zhichi_de_wenjian_geshi")

SchoolIdle ==
    /\ school_file = [ext |-> ".csv", exists |-> FALSE, rows |-> <<>>]
    /\ school_result = Raised("None")
    /\ school_pc = "idle"

SchoolInit ==
    /\ school_file \in SchoolFiles
    /\ school_result = Raised("None")
    /\ school_pc = "call"

ReadSchoolInfo ==
    /\ school_pc = "call"
    /\ school_result' = read_school_info(school_file)
    /\ school_pc' = "returned"
    /\ UNCHANGED <<school_file, retryVars, docVars, sessVars, streamVars, feVars,
                   uploadVars, chunkVars, pmVars, majorVars>>


-----------------------------------------------------------------------------
(* Part 3: sessions.                                                       *)
(* The front end names its uploads resume<suffix>, ps<suffix> and          *)
(* school<suffix> (frontend/app.py 733-737), so the paths the backend      *)
(* builds from the upload's filename depend on the suffix alone.           *)

Clients == 1..NumClients
SessionIds == 1..MaxClock
NoSession == 0

(* What a client uploads: one of two sets of materials (content 0 is no
   file), and the suffix of its resume file; the clients of the model all
   upload .docx resumes. *)
Tags == {1, 2}
ResumeExts == {".docx"}

ResumePath(ext) == IF ext = ".docx" THEN "resume_resume.docx" ELSE "resume_resume.txt"
PsPath == "ps_ps.docx"
SchoolPath == "school_school.csv"
Paths == {ResumePath(e) : e \in ResumeExts} \cup {PsPath, SchoolPath}

ExtOf(path) ==
    IF path = "resume_resume.txt" THEN ".txt"
    ELSE IF path = SchoolPath THEN ".csv" ELSE ".docx"

(* The materials with tag t. *)
DocumentOf(t) == [paragraphs |-> IF t = 1 THEN <<"P">> ELSE <<"Q">>, tables |-> <<>>]
TextOf(t) == IF t = 1 THEN <<"P">> ELSE <<"Q">>
RowsOf(t) ==
    IF t = 1
    THEN <<<<"v", "w">>, <<"zaidu_zhuanye", "mubiao_zhuanye">>, <<"v", "w">>>>
    ELSE <<<<"v", "w">>, <<"zaidu_zhuanye", "mubiao_zhuanye">>, <<"w", "v">>>>

(* The file a path names, as read_document and read_school_info see it. *)
DocFileAt(files, path) ==
    [ext |-> ExtOf(path), exists |-> files[path] # 0, word_ok |-> TRUE,
     text |-> IF files[path] = 0 THEN <<>> ELSE TextOf(files[path]),
     document |-> IF files[path] = 0 THEN NoDocument ELSE DocumentOf(files[path])]

SchoolFileAt(files, path) ==
    [ext |-> ExtOf(path), exists |-> files[path] # 0,
     rows |-> IF files[path] = 0 THEN <<>> ELSE RowsOf(files[path])]

(* read_document(resume_path), read_document(ps_path),
   read_school_info(school_info_path) *)
ReadSessionFiles(files, paths) ==
    <<read_document(DocFileAt(files, paths[1])),
      read_document(DocFileAt(files, paths[2])),
      read_school_info(SchoolFileAt(files, paths[3]))>>

AllRead(results) == \A i \in 1..3 : results[i].ok

NoRequest == [pc |-> "idle", tag |-> 0, ext |-> ".docx", sid |-> NoSession]
NoResult == [status |-> 0, detail |-> "None", analysis |-> "", prompt_template |-> "",
             sid |-> NoSession, texts |-> <<>>, llm_called |-> FALSE]

NoCleanup == [status |-> "None", sid |-> NoSession]

SessInit ==
    /\ temp_files = <<>>
    /\ fs = [path \in Paths |-> 0]
    /\ clock_ms = 1
    /\ req = [c \in Clients |-> NoRequest]
    /\ announced = {}
    /\ gen_result = NoResult
    /\ cleanup_result = NoCleanup
    /\ uploaded = [sid \in SessionIds |-> {}]
    /\ running = TRUE

SessIdle == SessInit

(* The application serves requests until it is shut down. *)
Serving == running /\ UNCHANGED running

(* A millisecond passes. *)
ClockTick ==
    /\ Serving
    /\ clock_ms < MaxClock
    /\ clock_ms' = clock_ms + 1
    /\ UNCHANGED <<temp_files, fs, req, announced, gen_result, cleanup_result, uploaded>>
    /\ UNCHANGED <<retryVars, docVars, schoolVars, uploadVars, streamVars, feVars, chunkVars, pmVars, majorVars>>

(* session_id = str(int(time.time() * 1000)) when the request gives none *)
SharedSessionId(clock) == 1
NewSessionId(clock) == clock

(* analyze_materials_stream up to its return: the session id is chosen and
   the uploads are read into memory. *)
AnalyzeReceive(c, tag, ext) ==
    /\ Serving
    /\ req[c].pc = "idle"
    /\ req' = [req EXCEPT ![c] = [pc |-> "received", tag |-> tag, ext |-> ext,
                                  sid |-> NewSessionId(clock_ms)]]
    /\ UNCHANGED <<temp_files, fs, clock_ms, announced, gen_result, cleanup_result,
                   uploaded>>
    /\ UNCHANGED <<retryVars, docVars, schoolVars, uploadVars, streamVars, feVars, chunkVars, pmVars, majorVars>>

(* The paths of a request's three temporary files. *)
RequestPaths(r) == <<ResumePath(r.ext), PsPath, SchoolPath>>

(* generate() starts: the paths are built and registered for the session. *)
AnalyzeRegister(c) ==
    /\ Serving
    /\ req[c].pc = "received"
    /\ temp_files' = (req[c].sid :> RequestPaths(req[c])) @@ temp_files
    /\ uploaded' = [uploaded EXCEPT ![req[c].sid] = @ \cup {req[c].tag}]
    /\ req' = [req EXCEPT ![c].pc = "registered"]
    /\ UNCHANGED <<fs, clock_ms, announced, gen_result, cleanup_result>>
    /\ UNCHANGED <<retryVars, docVars, schoolVars, uploadVars, streamVars, feVars, chunkVars, pmVars, majorVars>>

(* write_bytes_to_file(path, content) for the three files, in order. *)
RECURSIVE WriteFiles(_, _, _)
WriteFiles(files, paths, content) ==
    IF paths = <<>> THEN files
    ELSE WriteFiles([files EXCEPT ![Head(paths)] = content], Tail(paths), content)

(* The three files are written and read back; when all three are read the
   session_id event is sent. The language-model call that follows touches
   none of these variables. *)
AnalyzeWriteRead(c) ==
    /\ Serving
    /\ req[c].pc = "registered"
    /\ fs' = WriteFiles(fs, RequestPaths(req[c]), req[c].tag)
    /\ announced' = IF AllRead(ReadSessionFiles(fs', RequestPaths(req[c])))
                    THEN announced \cup {req[c].sid}
                    ELSE announced
    /\ req' = [req EXCEPT ![c] = NoRequest]
    /\ UNCHANGED <<temp_files, clock_ms, gen_result, cleanup_result, uploaded>>
    /\ UNCHANGED <<retryVars, docVars, schoolVars, uploadVars, streamVars, feVars, chunkVars, pmVars, majorVars>>

(* generate_ps_endpoint: the parameter check, the session lookup and the
   reading of the session's files; every HTTPException raised inside the
   handler's try is caught by its `except Exception` and re-raised as 500. *)
(* What /generate_ps answers a request with: the HTTP status and detail, the
   texts read for the prompt and whether generate() calls the model. *)
Response(analysis, prompt_template, session_id, status, detail, texts, llm_called) ==
    [status |-> status, detail |-> detail, analysis |-> analysis,
     prompt_template |-> prompt_template, sid |-> session_id,
     texts |-> texts, llm_called |-> llm_called]

generate_psNoParameterCheck(analysis, prompt_template, session_id) ==
    IF session_id \notin DOMAIN temp_files
    THEN Response(analysis, prompt_template, session_id,
                  500, "400: Session expired or invalid", <<>>, FALSE)
    ELSE LET results == ReadSessionFiles(fs, temp_files[session_id]) IN
         IF ~AllRead(results)
         THEN Response(analysis, prompt_template, session_id,
                       500, "500: Failed to read session files", <<>>, FALSE)
         ELSE Response(analysis, prompt_template, session_id, 200, "None",
                       [i \in 1..3 |-> results[i].value], TRUE)
generate_ps(analysis, prompt_template, session_id) ==
    IF analysis = "" \/ prompt_template = "" \/ session_id = NoSession
    THEN Response(analysis, prompt_template, session_id,
                  500, "400: Missing required parameters", <<>>, FALSE)
    ELSE IF session_id \notin DOMAIN temp_files
    THEN Response(analysis, prompt_template, session_id,
                  500, "400: Session expired or invalid", <<>>, FALSE)
    ELSE LET results == ReadSessionFiles(fs, temp_files[session_id]) IN
         IF ~AllRead(results)
         THEN Response(analysis, prompt_template, session_id,
                       500, "500: Failed to read session files", <<>>, FALSE)
         ELSE Response(analysis, prompt_template, session_id, 200, "None",
                       [i \in 1..3 |-> results[i].value], TRUE)

GeneratePs(analysis, prompt_template, session_id) ==
    /\ Serving
    /\ gen_result' = generate_ps(analysis, prompt_template, session_id)
    /\ cleanup_result' = NoCleanup
    /\ UNCHANGED <<temp_files, fs, clock_ms, req, announced, uploaded>>
    /\ UNCHANGED <<retryVars, docVars, schoolVars, uploadVars, streamVars, feVars, chunkVars, pmVars, majorVars>>

(* path.unlink() for each path of the session that exists; the unlink of a
   path in failing raises, which is logged, and the loop goes on. *)
RECURSIVE Unlink(_, _, _)
Unlink(files, paths, failing) ==
    IF paths = <<>> THEN files
    ELSE Unlink(IF Head(paths) \in failing THEN files
                ELSE [files EXCEPT ![Head(paths)] = 0],
                Tail(paths), failing)

(* The paths whose unlink may raise. *)
UnlinkFailures == {{}, {SchoolPath}}

(* del app.state.app_state.temp_files[session_id] *)
KeepEntry(files, session_id) == files
DelEntry(files, session_id) == [s \in DOMAIN files \ {session_id} |-> files[s]]

(* cleanup_temp_files(session_id) on the files and the registered sessions:
   what it leaves of both. *)
cleanup_temp_filesRaising(files, registered, session_id, failing) ==
    IF session_id \in DOMAIN registered
    THEN IF \E k \in 1..Len(registered[session_id]) :
               /\ registered[session_id][k] \in failing
               /\ files[registered[session_id][k]] # 0
         THEN [fs |-> files, temp_files |-> registered]
         ELSE [fs |-> Unlink(files, registered[session_id], failing),
               temp_files |-> DelEntry(registered, session_id)]
    ELSE [fs |-> files, temp_files |-> registered]
cleanup_temp_files(files, registered, session_id, failing) ==
    IF session_id \in DOMAIN registered
    THEN [fs |-> Unlink(files, registered[session_id], failing),
          temp_files |-> DelEntry(registered, session_id)]
    ELSE [fs |-> files, temp_files |-> registered]

(* POST /cleanup: cleanup_temp_files(session_id), then {"status": "success"}. *)
Cleanup(session_id, failing) ==
    /\ Serving
    /\ LET after == cleanup_temp_files(fs, temp_files, session_id, failing) IN
       /\ fs' = after.fs
       /\ temp_files' = after.temp_files
    /\ cleanup_result' = [status |-> "success", sid |-> session_id]
    /\ gen_result' = NoResult
    /\ UNCHANGED <<clock_ms, req, announced, uploaded>>
    /\ UNCHANGED <<retryVars, docVars, schoolVars, uploadVars, streamVars, feVars, chunkVars, pmVars, majorVars>>

(* for session_id in list(temp_files.keys()): cleanup_temp_files(session_id) *)
RECURSIVE cleanup_all(_, _, _, _)
cleanup_all(files, registered, keys, failing) ==
    IF keys = {} THEN [fs |-> files, temp_files |-> registered]
    ELSE LET session_id == CHOOSE k \in keys : \A other \in keys : k <= other
             after == cleanup_temp_files(files, registered, session_id, failing)
         IN  cleanup_all(after.fs, after.temp_files, keys \ {session_id}, failing)

(* The shutdown event: the server has finished the requests it was handling
   and runs cleanup_all; nothing is served afterwards. *)
ShutDown(failing) ==
    /\ running
    /\ \A c \in Clients : req[c].pc = "idle"
    /\ running' = FALSE
    /\ LET after == cleanup_all(fs, temp_files, DOMAIN temp_files, failing) IN
       /\ fs' = after.fs
       /\ temp_files' = after.temp_files
    /\ UNCHANGED <<clock_ms, req, announced, gen_result, cleanup_result, uploaded>>
    /\ UNCHANGED <<retryVars, docVars, schoolVars, uploadVars, streamVars, feVars, chunkVars, pmVars, majorVars>>

SessNext ==
    \/ ClockTick
    \/ \E c \in Clients, tag \in Tags, ext \in ResumeExts : AnalyzeReceive(c, tag, ext)
    \/ \E c \in Clients : AnalyzeRegister(c)
    \/ \E c \in Clients : AnalyzeWriteRead(c)
    \/ \E analysis \in {"", "a"}, prompt_template \in {"", "p"},
          session_id \in {NoSession} \cup SessionIds :
          GeneratePs(analysis, prompt_template, session_id)
    \/ \E session_id \in SessionIds, failing \in UnlinkFailures :
          Cleanup(session_id, failing)
    \/ \E failing \in UnlinkFailures : ShutDown(failing)

-----------------------------------------------------------------------------
(* Part 4: the /analyze_stream response and the front end's generate run.  *)

(* What a run uploads, of the types the front end's uploaders accept: the
   suffix of the resume, whether Word on the server converts a .doc file,
   and the suffix of the school file. *)
Uploads ==
    {u \in [resume_ext : {".doc", ".docx"}, word_ok : BOOLEAN,
            school_ext : {".csv"}] :
        u.resume_ext = ".docx" => u.word_ok}

UploadedFiles(u) ==
    <<[ext |-> u.resume_ext, exists |-> TRUE, word_ok |-> u.word_ok,
       text |-> <<>>, document |-> DocumentOf(1)],
      [ext |-> ".docx", exists |-> TRUE, word_ok |-> TRUE,
       text |-> <<>>, document |-> DocumentOf(1)],
      [ext |-> u.school_ext, exists |-> TRUE, rows |-> RowsOf(1)]>>

(* The three reads of generate(), lines 744-748. *)
ReadUploads(u) ==
    <<read_document(UploadedFiles(u)[1]),
      read_document(UploadedFiles(u)[2]),
      read_school_info(UploadedFiles(u)[3])>>

SessionEvent(sid) == [type |-> "session_id", val |-> sid, text |-> ""]
TextEvent(chunk) == [type |-> "text", val |-> 0, text |-> chunk]
ErrorEvent == [type |-> "error", val |-> 0, text |-> ""]

(* yield the session id: line 785 *)
NoSessionEvent(sid) == <<>>
FirstEvents(sid) == <<SessionEvent(sid)>>

(* if chunk: yield a text event, for each chunk the call yields *)
RECURSIVE TextEvents(_)
TextEvents(chunks) ==
    IF chunks = <<>> THEN <<>>
    ELSE (IF Truthy(Head(chunks)) THEN <<TextEvent(Head(chunks))>> ELSE <<>>)
         \o TextEvents(Tail(chunks))

NoGenerationData == [run |-> 0, analysis |-> <<>>, session_id |-> NoSession]

StreamInit ==
    /\ an_pc = "idle"
    /\ an_upload = [resume_ext |-> ".docx", word_ok |-> TRUE, school_ext |-> ".csv"]
    /\ an_session_id = NoSession
    /\ events = <<>>
    /\ content_generated = FALSE

FeInit ==
    /\ fe_pc = "idle"
    /\ fe_pos = 0
    /\ st_session_id = NoSession
    /\ analysis_content = <<>>
    /\ generation_data = NoGenerationData
    /\ runs = 0

StreamIdle == StreamInit
FeIdle == FeInit

(* The generate button: the front end posts the three files to
   /analyze_stream; the handler takes the time in milliseconds as the
   session id (runs of one browser follow each other, so each gets its own)
   and returns the streaming response. Nothing is left of the previous run's
   call of the language model or of its /generate_ps request. *)
FeStartRun(u) ==
    /\ fe_pc \in {"idle", "complete", "failed"}
    /\ an_pc \in {"idle", "ended"}
    /\ runs < MaxRuns
    /\ runs' = runs + 1
    /\ fe_pc' = "analyzing"
    /\ fe_pos' = 0
    /\ analysis_content' = <<>>
    /\ an_pc' = "received"
    /\ an_upload' = u
    /\ an_session_id' = runs + 1
    /\ events' = <<>>
    /\ content_generated' = FALSE
    /\ generation_data' = NoGenerationData
    /\ CallGone
    /\ UNCHANGED st_session_id
    /\ UNCHANGED <<docVars, schoolVars, uploadVars, sessVars, chunkVars, pmVars, majorVars>>

(* generate() up to the call of the language model: the files are written
   and read; a failed read ends the response with an error event, otherwise
   the session id is sent and call_ai_with_retry_stream is entered. *)
AnalyzeBegin ==
    /\ an_pc = "received"
    /\ IF AllRead(ReadUploads(an_upload))
       THEN /\ events' = FirstEvents(an_session_id)
            /\ an_pc' = "calling"
            /\ call_pc' = "loop"
            /\ api_model' = "deepseek-reasoner"
            /\ max_retries' = DefaultMaxRetries
            /\ retry_count' = 0
            /\ last_error' = "None"
            /\ content_received' = FALSE
            /\ last_content_time' = 0
            /\ now' = 0
            /\ chunks_seen' = 0
            /\ yielded' = <<>>
            /\ attempt_from' = 0
            /\ delivered' = <<>>
            /\ last_text_time' = 0
            /\ call_log' = <<>>
            /\ raised_error' = "None"
       ELSE /\ events' = <<ErrorEvent>>
            /\ an_pc' = "ended"
            /\ UNCHANGED retryVars
    /\ UNCHANGED <<an_upload, an_session_id, content_generated>>
    /\ UNCHANGED <<docVars, schoolVars, uploadVars, sessVars, feVars, chunkVars, pmVars, majorVars>>

(* A step of the call inside `async for chunk in call_ai_with_retry_stream`:
   what the step yields is sent on as text events before the call goes on. *)
Forward ==
    /\ an_pc = "calling"
    /\ LET new == SubSeq(yielded', Len(yielded) + 1, Len(yielded')) IN
       /\ events' = events \o TextEvents(new)
       /\ content_generated' = (content_generated \/ TextEvents(new) # <<>>)
    /\ UNCHANGED <<an_pc, an_upload, an_session_id>>
    /\ UNCHANGED <<docVars, schoolVars, uploadVars, sessVars, feVars, chunkVars, pmVars, majorVars>>

AnalyzeCreateStream == CreateStreamCore /\ Forward
AnalyzeCreateFails == CreateFailsCore /\ Forward
AnalyzeTick(d) == TickCore(d) /\ Forward
AnalyzeChunk(chunk) == ChunkArrivesCore(chunk) /\ Forward
AnalyzeStreamEnds == StreamEndsCore /\ Forward
AnalyzeStreamRaises == StreamRaisesCore /\ Forward

(* if not content_generated: yield an error event (lines 794-797, 930-934;
   error_occurred of generate_ps is still False there) *)
NoContentEventsSilent(generated) == <<>>
NoContentEvents(generated) == IF ~generated THEN <<ErrorEvent>> ELSE <<>>

(* The call returned: the loop is left; the call's frame is gone with the
   generator. *)
AnalyzeReturn ==
    /\ an_pc = "calling"
    /\ call_pc = "done"
    /\ events' = events \o NoContentEvents(content_generated)
    /\ an_pc' = "ended"
    /\ CallGone
    /\ UNCHANGED <<an_upload, an_session_id, content_generated>>
    /\ UNCHANGED <<docVars, schoolVars, uploadVars, sessVars, feVars, chunkVars, pmVars, majorVars>>

(* The call raised: the except clause of lines 799-803; the call's frame is
   gone with the generator. *)
AnalyzeExcept ==
    /\ an_pc = "calling"
    /\ call_pc = "raised"
    /\ events' = Append(events, ErrorEvent)
    /\ an_pc' = "ended"
    /\ CallGone
    /\ UNCHANGED <<an_upload, an_session_id, content_generated>>
    /\ UNCHANGED <<docVars, schoolVars, uploadVars, sessVars, feVars, chunkVars, pmVars, majorVars>>

(* generate() of generate_ps_endpoint (lines 916-942) once the request has
   passed the handler's checks: call_ai_with_retry_stream is entered with
   GENERATION_API_CONFIG; no session id is sent. The loop over the call, the
   check of content_generated and the except clause are those of the
   analysis. *)
GenerateBegin ==
    /\ an_pc = "generate"
    /\ events' = <<>>
    /\ an_pc' = "calling"
    /\ call_pc' = "loop"
    /\ api_model' = "gpt-4o"
    /\ max_retries' = DefaultMaxRetries
    /\ retry_count' = 0
    /\ last_error' = "None"
    /\ content_received' = FALSE
    /\ last_content_time' = 0
    /\ now' = 0
    /\ chunks_seen' = 0
    /\ yielded' = <<>>
    /\ attempt_from' = 0
    /\ delivered' = <<>>
    /\ last_text_time' = 0
    /\ call_log' = <<>>
    /\ raised_error' = "None"
    /\ UNCHANGED <<an_upload, an_session_id, content_generated>>
    /\ UNCHANGED <<docVars, schoolVars, uploadVars, sessVars, feVars, chunkVars, pmVars, majorVars>>

(* A request of either endpoint has arrived at the backend: an             *)
(* /analyze_stream request with its uploads and its session id, or a       *)
(* /generate_ps request that passed the checks.                            *)
ResponsesInit ==
    /\ \/ /\ an_pc = "received"
          /\ an_upload \in Uploads
          /\ an_session_id = 1
       \/ /\ an_pc = "generate"
          /\ an_upload = [resume_ext |-> ".docx", word_ok |-> TRUE, school_ext |-> ".csv"]
          /\ an_session_id = NoSession
    /\ events = <<>>
    /\ content_generated = FALSE

ResponsesNext ==
    \/ AnalyzeBegin
    \/ GenerateBegin
    \/ AnalyzeCreateStream
    \/ AnalyzeCreateFails
    \/ \E d \in Delays : AnalyzeTick(d)
    \/ \E chunk \in Chunks(api_model) : AnalyzeChunk(chunk)
    \/ AnalyzeStreamEnds
    \/ AnalyzeStreamRaises
    \/ AnalyzeReturn
    \/ AnalyzeExcept

(* process_stream_response for one event: what it yields, or that it raises. *)
SwallowError(event) ==
    IF event.type = "session_id" THEN [raise |-> FALSE, chunk |-> event]
    ELSE IF event.type = "text" THEN [raise |-> FALSE, chunk |-> event]
    ELSE [raise |-> FALSE, chunk |-> TextEvent("")]
StreamItem(event) ==
    IF event.type = "session_id" THEN [raise |-> FALSE, chunk |-> event]
    ELSE IF event.type = "text" THEN [raise |-> FALSE, chunk |-> event]
    ELSE [raise |-> TRUE, chunk |-> event]

(* The body of the front end's loop over process_stream_response: an error
   leaves the run through the handler's except, the first session id of the
   browser session is stored, everything else is appended to the analysis
   (a session id arrives as the chunk "session_id:<id>"). *)
FeProcessEvent ==
    /\ fe_pc = "analyzing"
    /\ fe_pos < Len(events)
    /\ fe_pos' = fe_pos + 1
    /\ LET item == StreamItem(events[fe_pos + 1]) IN
       IF item.raise
       THEN /\ fe_pc' = "failed"
            /\ UNCHANGED <<st_session_id, analysis_content>>
       ELSE IF st_session_id = NoSession /\ item.chunk.type = "session_id"
       THEN /\ st_session_id' = item.chunk.val
            /\ UNCHANGED <<fe_pc, analysis_content>>
       ELSE /\ analysis_content' = Append(analysis_content, item.chunk)
            /\ UNCHANGED <<fe_pc, st_session_id>>
    /\ UNCHANGED <<generation_data, runs>>
    /\ UNCHANGED <<retryVars, docVars, schoolVars, uploadVars, sessVars, streamVars, chunkVars, pmVars, majorVars>>

(* The response has ended and every event is processed: the front end
   posts analysis_content and the stored session id to /generate_ps. *)
FeSendGenerate ==
    /\ fe_pc = "analyzing"
    /\ an_pc = "ended"
    /\ fe_pos = Len(events)
    /\ generation_data' = [run |-> runs, analysis |-> analysis_content,
                           session_id |-> st_session_id]
    /\ fe_pc' = "generating"
    /\ UNCHANGED <<fe_pos, st_session_id, analysis_content, runs>>
    /\ UNCHANGED <<retryVars, docVars, schoolVars, uploadVars, sessVars, streamVars, chunkVars, pmVars, majorVars>>

(* The /generate_ps response ends: with its text, or with an error status or
   an error event, which raises in the front end. *)
FeGenerateEnds(outcome) ==
    /\ fe_pc = "generating"
    /\ fe_pc' = outcome
    /\ UNCHANGED <<fe_pos, st_session_id, analysis_content, generation_data, runs>>
    /\ UNCHANGED <<retryVars, docVars, schoolVars, uploadVars, sessVars, streamVars, chunkVars, pmVars, majorVars>>

StreamNext ==
    \/ \E u \in Uploads : FeStartRun(u)
    \/ AnalyzeBegin
    \/ AnalyzeCreateStream
    \/ AnalyzeCreateFails
    \/ \E d \in Delays : AnalyzeTick(d)
    \/ \E chunk \in Chunks(api_model) : AnalyzeChunk(chunk)
    \/ AnalyzeStreamEnds
    \/ AnalyzeStreamRaises
    \/ AnalyzeReturn
    \/ AnalyzeExcept
    \/ FeProcessEvent
    \/ FeSendGenerate
    \/ \E outcome \in {"complete", "failed"} : FeGenerateEnds(outcome)

-----------------------------------------------------------------------------
(* Part 5: /upload. A request saves its three uploads under the uploads    *)
(* directory at UPLOAD_DIR/<filename>, reads them back, has the materials  *)
(* analysed and removes the files it saved in its finally clause. The      *)
(* handler gives way to other requests at each await: while an upload is   *)
(* read into memory (its file already opened for writing) and while the    *)
(* language model is called.                                               *)

(* Clients that name their uploads alike: one path per kind of upload. *)
UploadSchoolExts == {".csv", ".pdf"}
ResumeUploadPath == "uploads/r.docx"
PsUploadPath == "uploads/p.docx"
SchoolUploadPath(ext) == IF ext = ".csv" THEN "uploads/s.csv" ELSE "uploads/s.pdf"
UploadPaths == {ResumeUploadPath, PsUploadPath} \cup
               {SchoolUploadPath(ext) : ext \in UploadSchoolExts}
UploadPathsOf(r) == <<ResumeUploadPath, PsUploadPath, SchoolUploadPath(r.school_ext)>>

(* A file of the directory: the request whose open() created or truncated
   it last, and whether its content has been written. *)
NoFile == [owner |-> 0, full |-> FALSE]
NoUpload == [pc |-> "idle", school_ext |-> ".csv", opened |-> 0, saved |-> 0,
             status |-> "None", http |-> 0, llm_called |-> FALSE]

UploadInit ==
    /\ up_fs = [path \in UploadPaths |-> NoFile]
    /\ up_req = [c \in Clients |-> NoUpload]

UploadIdle == UploadInit

(* if ext not in ['.xls', '.xlsx', '.csv', '.txt'] *)
AnyFormatAccepted(ext) == TRUE
SchoolFormatAccepted(ext) == ext \in {".xls", ".xlsx", ".csv", ".txt"}

(* open(path, "wb") *)
OpenForWriting(files, path, c) == [files EXCEPT ![path] = [owner |-> c, full |-> FALSE]]

(* f.write(content): the content reaches the path when the path still names
   the file (no other request has removed it since it was opened). *)
WriteContent(files, path, c) ==
    IF files[path].owner = 0 THEN files
    ELSE [files EXCEPT ![path] = [owner |-> c, full |-> TRUE]]

(* The finally clause: os.remove for each path of uploaded_files that exists. *)
RECURSIVE RemoveUploaded(_, _)
RemoveUploaded(files, paths) ==
    IF paths = <<>> THEN files
    ELSE RemoveUploaded([files EXCEPT ![Head(paths)] = NoFile], Tail(paths))

(* uploaded_files *)
uploaded_files(r) == SubSeq(UploadPathsOf(r), 1, r.saved)

(* The request returns {"status": status, ...} through its finally clause. *)
UploadReturn(c, r, files, status) ==
    /\ up_fs' = RemoveUploaded(files, uploaded_files(r))
    /\ up_req' = [up_req EXCEPT ![c] = [r EXCEPT !.pc = "done", !.status = status,
                                                 !.http = 200]]

(* read_document / read_school_info on a saved upload. *)
UploadReadable(files, path) == files[path].owner # 0 /\ files[path].full

(* The request arrives: the school file's format is checked, the directory
   made, the resume's file opened; then the resume is awaited. *)
UploadReceive(c, ext) ==
    /\ up_req[c].pc = "idle"
    /\ LET r == [NoUpload EXCEPT !.school_ext = ext] IN
       IF ~SchoolFormatAccepted(ext)
       THEN UploadReturn(c, r, up_fs, "error")
       ELSE /\ up_fs' = OpenForWriting(up_fs, ResumeUploadPath, c)
            /\ up_req' = [up_req EXCEPT ![c] = [r EXCEPT !.pc = "saving", !.opened = 1]]
    /\ UNCHANGED <<retryVars, docVars, schoolVars, sessVars, streamVars, feVars, chunkVars, pmVars, majorVars>>

(* The awaited upload has been read (or reading or writing it raised): it is
   written and entered in uploaded_files, and the next file is opened; after
   the third the files are read back and process_materials is entered. *)
UploadSave(c, ok) ==
    /\ up_req[c].pc = "saving"
    /\ LET r == up_req[c]
           i == r.saved + 1
           path == UploadPathsOf(r)[i]
           written == WriteContent(up_fs, path, c)
           r1 == [r EXCEPT !.saved = i]
       IN IF ~ok
          THEN UploadReturn(c, r, up_fs, "error")
          ELSE IF i < 3
          THEN /\ up_fs' = OpenForWriting(written, UploadPathsOf(r)[i + 1], c)
               /\ up_req' = [up_req EXCEPT ![c] = [r1 EXCEPT !.opened = i + 1]]
          ELSE IF \A k \in 1..3 : UploadReadable(written, UploadPathsOf(r)[k])
          THEN /\ up_fs' = written
               /\ up_req' = [up_req EXCEPT ![c] = [r1 EXCEPT !.pc = "processing",
                                                             !.llm_called = TRUE]]
          ELSE UploadReturn(c, r1, written, "error")
    /\ UNCHANGED <<retryVars, docVars, schoolVars, sessVars, streamVars, feVars, chunkVars, pmVars, majorVars>>

(* process_materials returns the analysis or raises. *)
UploadProcessed(c, status) ==
    /\ up_req[c].pc = "processing"
    /\ UploadReturn(c, up_req[c], up_fs, status)
    /\ UNCHANGED <<retryVars, docVars, schoolVars, sessVars, streamVars, feVars, chunkVars, pmVars, majorVars>>

UploadNext ==
    \/ \E c \in Clients, ext \in UploadSchoolExts : UploadReceive(c, ext)
    \/ \E c \in Clients, ok \in BOOLEAN : UploadSave(c, ok)
    \/ \E c \in Clients, status \in {"success", "error"} : UploadProcessed(c, status)

-----------------------------------------------------------------------------
(* Part 6: split_text_into_chunks (main.py 558-582).                        *)
(* A text is a sequence of characters; "\n" is the line break.               *)

Chars == {"a", "\n"}

RECURSIVE TextsOfLength(_)
TextsOfLength(n) ==
    IF n = 0 THEN {<<>>}
    ELSE {Append(t, ch) : t \in TextsOfLength(n - 1), ch \in Chars}

Texts == UNION {TextsOfLength(n) : n \in 0..MaxText}

(* text.split('\n\n'): the pieces between the occurrences of the separator, *)
(* found from left to right without overlap; current is the piece so far.    *)
RECURSIVE SplitBlank(_, _)
SplitBlank(text, current) ==
    IF text = <<>> THEN <<current>>
    ELSE IF Len(text) >= 2 /\ text[1] = "\n" /\ text[2] = "\n"
         THEN <<current>> \o SplitBlank(Tail(Tail(text)), <<>>)
         ELSE SplitBlank(Tail(text), Append(current, Head(text)))

(* '\n\n'.join(pieces) *)
RECURSIVE JoinBlank(_)
JoinBlank(pieces) ==
    IF pieces = <<>> THEN <<>>
    ELSE IF Len(pieces) = 1 THEN Head(pieces)
         ELSE Head(pieces) \o <<"\n", "\n">> \o JoinBlank(Tail(pieces))

(* The loop over the paragraphs and the final append. *)
RECURSIVE ForParagraphs(_, _, _, _, _)
ForParagraphs(paragraphs, chunks, current_chunk, current_size, max_chunk_size) ==
    IF paragraphs = <<>>
    THEN IF current_chunk # <<>>
         THEN Append(chunks, JoinBlank(current_chunk))
         ELSE chunks
    ELSE LET paragraph == Head(paragraphs)
             paragraph_size == Len(paragraph)
         IN  IF current_size + paragraph_size > max_chunk_size /\ current_chunk # <<>>
             THEN ForParagraphs(Tail(paragraphs),
                                Append(chunks, JoinBlank(current_chunk)),
                                <<paragraph>>, paragraph_size, max_chunk_size)
             ELSE ForParagraphs(Tail(paragraphs), chunks,
                                Append(current_chunk, paragraph),
                                current_size + paragraph_size, max_chunk_size)

split_text_into_chunksNoFinalAppend(text, max_chunk_size) ==
    LET chunks == ForParagraphs(SplitBlank(text, <<>>), <<>>, <<>>, 0, max_chunk_size)
    IN  SubSeq(chunks, 1, Len(chunks) - 1)
split_text_into_chunks(text, max_chunk_size) ==
    ForParagraphs(SplitBlank(text, <<>>), <<>>, <<>>, 0, max_chunk_size)

ChunkInit ==
    /\ split_text \in Texts
    /\ split_max \in 1..MaxSize
    /\ split_chunks = <<>>
    /\ split_pc = "call"

ChunkIdle ==
    /\ split_text = <<>>
    /\ split_max = 1
    /\ split_chunks = <<>>
    /\ split_pc = "idle"

SplitTextIntoChunks ==
    /\ split_pc = "call"
    /\ split_chunks' = split_text_into_chunks(split_text, split_max)
    /\ split_pc' = "returned"
    /\ UNCHANGED <<split_text, split_max>>
    /\ UNCHANGED <<retryVars, docVars, schoolVars, sessVars, streamVars, feVars,
                   uploadVars, pmVars, majorVars>>

ChunkNext == SplitTextIntoChunks

-----------------------------------------------------------------------------
(* Part 7: process_materials and analyze_text_chunks (main.py 585-690).     *)
(* The combined text is known by its length and, when it is split, by the   *)
(* number of its chunks; the analysis of chunk i is known as i, the         *)
(* analysis of the whole text as 0.  pm_answers[k] says whether the k-th    *)
(* request that reaches the language model is answered or fails.            *)

TextLengths == {MAX_CHUNK_SIZE - 1, MAX_CHUNK_SIZE, MAX_CHUNK_SIZE + 1}

ErrorMarker == [kind |-> "marker", of |-> 0]

NoOutcome == [status |-> "None", analysis |-> <<>>, code |-> 0]

(* Calling the async generator function runs none of its body: it returns  *)
(* an async generator object.                                               *)
call_ai_with_retry_stream_object == [type |-> "async_generator"]

(* `await obj`: the value of a coroutine, TypeError for any other object.    *)
Await(obj, value) ==
    IF obj.type = "coroutine" THEN value ELSE [kind |-> "TypeError", of |-> 0]

(* The body of the loop of analyze_text_chunks for chunk i: what is         *)
(* appended to analysis_results.                                            *)
ChunkResult(i) ==
    LET result == Await(call_ai_with_retry_stream_object, [kind |-> "str", of |-> i])
    IN  IF result.kind = "str" THEN result ELSE ErrorMarker

(* The results that do not start with the error marker. *)
Combined(results) == SelectSeq(results, LAMBDA r : r.kind # "marker")

RECURSIVE Analyses(_)
Analyses(results) ==
    IF results = <<>> THEN <<>> ELSE <<Head(results).of>> \o Analyses(Tail(results))

PmInit ==
    /\ pm_pc = "call"
    /\ pm_len \in TextLengths
    /\ pm_answers \in [1..MaxParts -> {"ok", "fails"}]
    /\ pm_chunks = 0
    /\ pm_index = 0
    /\ analysis_results = <<>>
    /\ pm_asked = 0
    /\ pm_result = NoOutcome

PmIdle ==
    /\ pm_pc = "idle"
    /\ pm_len = 0
    /\ pm_answers = [k \in 1..MaxParts |-> "ok"]
    /\ pm_chunks = 0
    /\ pm_index = 0
    /\ analysis_results = <<>>
    /\ pm_asked = 0
    /\ pm_result = NoOutcome

(* process_materials up to its branch (main.py 678-684): a long text is     *)
(* split with the default max_chunk_size, which gives n chunks.             *)
ProcessMaterials(n) ==
    /\ pm_pc = "call"
    /\ IF pm_len > MAX_CHUNK_SIZE
       THEN pm_pc' = "chunks" /\ pm_chunks' = n
       ELSE pm_pc' = "whole" /\ pm_chunks' = 0
    /\ UNCHANGED <<pm_len, pm_answers, pm_index, analysis_results, pm_asked, pm_result>>
    /\ UNCHANGED <<retryVars, docVars, schoolVars, sessVars, streamVars, feVars,
                   uploadVars, chunkVars, majorVars>>

(* The short text: `async for` over the generator (main.py 685-690).       *)
AnalyzeWhole ==
    /\ pm_pc = "whole"
    /\ pm_asked' = pm_asked + 1
    /\ pm_result' = IF pm_answers[pm_asked + 1] = "ok"
                    THEN [status |-> "returned", analysis |-> <<0>>, code |-> 200]
                    ELSE [status |-> "raised", analysis |-> <<>>, code |-> 500]
    /\ pm_pc' = "done"
    /\ UNCHANGED <<pm_len, pm_answers, pm_chunks, pm_index, analysis_results>>
    /\ UNCHANGED <<retryVars, docVars, schoolVars, sessVars, streamVars, feVars,
                   uploadVars, chunkVars, majorVars>>

(* One turn of the loop of analyze_text_chunks (main.py 589-608). *)
AnalyzeTextChunk ==
    /\ pm_pc = "chunks"
    /\ pm_index < pm_chunks
    /\ pm_index' = pm_index + 1
    /\ analysis_results' = Append(analysis_results, ChunkResult(pm_index + 1))
    /\ pm_asked' = IF call_ai_with_retry_stream_object.type = "coroutine"
                   THEN pm_asked + 1 ELSE pm_asked
    /\ UNCHANGED <<pm_pc, pm_len, pm_answers, pm_chunks, pm_result>>
    /\ UNCHANGED <<retryVars, docVars, schoolVars, sessVars, streamVars, feVars,
                   uploadVars, chunkVars, majorVars>>

(* After the loop (main.py 610-638): 503 is raised inside the try and      *)
(* raised again as 500 by its except.                                       *)
CombineResults ==
    /\ pm_pc = "chunks"
    /\ pm_index = pm_chunks
    /\ pm_result' =
          IF analysis_results = <<>>
          THEN [status |-> "raised", analysis |-> <<>>, code |-> 503]
          ELSE IF Combined(analysis_results) = <<>>
               THEN [status |-> "raised", analysis |-> <<>>, code |-> 500]
               ELSE [status |-> "returned",
                     analysis |-> Analyses(Combined(analysis_results)),
                     code |-> 200]
    /\ pm_pc' = "done"
    /\ UNCHANGED <<pm_len, pm_answers, pm_chunks, pm_index, analysis_results, pm_asked>>
    /\ UNCHANGED <<retryVars, docVars, schoolVars, sessVars, streamVars, feVars,
                   uploadVars, chunkVars, majorVars>>

PmNext ==
    \/ \E n \in 2..MaxParts : ProcessMaterials(n)
    \/ AnalyzeWhole
    \/ AnalyzeTextChunk
    \/ CombineResults

-----------------------------------------------------------------------------
(* Part 8: extract_majors_from_school_info (main.py 535-556).               *)
(* school_info_data is a dict from strings to strings, as read_school_info  *)
(* returns it.                                                              *)

MajorValues == {"", "v", "w"}

(* The dicts of the model: any of the six keys, each with any value. *)
MajorDicts == UNION {[keys -> MajorValues] : keys \in SUBSET KeyFields}

(* school_info_data.get(key, default) *)
Get(d, key, default) == IF key \in DOMAIN d THEN d[key] ELSE default

(* The three lookups of one major: `if not major:` passes to the next key, *)
(* the last lookup is returned as it is.                                    *)
LookUp(d, first, second, third, default) ==
    LET a == Get(d, first, "") IN
    IF a # "" THEN a
    ELSE LET b == Get(d, second, "") IN
         IF b # "" THEN b
         ELSE Get(d, third, default)

extract_majors_from_school_info(school_info_data) ==
    <<LookUp(school_info_data, "zaidu_zhuanye", "benke_zhuanye", "dangqian_zhuanye",
             "A_zhuanye"),
      LookUp(school_info_data, "shenqing_zhuanye", "mubiao_zhuanye", "yixiang_zhuanye",
             "B_zhuanye")>>

NoMajors == <<"None", "None">>

MajorInit ==
    /\ majors_data \in MajorDicts
    /\ majors_result = NoMajors
    /\ majors_pc = "call"

MajorIdle ==
    /\ majors_data = <<>>
    /\ majors_result = NoMajors
    /\ majors_pc = "idle"

ExtractMajors ==
    /\ majors_pc = "call"
    /\ majors_result' = extract_majors_from_school_info(majors_data)
    /\ majors_pc' = "returned"
    /\ UNCHANGED majors_data
    /\ UNCHANGED <<retryVars, docVars, schoolVars, sessVars, streamVars, feVars,
                   uploadVars, chunkVars, pmVars>>

(* process_materials (main.py 647): the majors are taken from what         *)
(* read_school_info returned.                                               *)
ExtractFromSchoolInfo ==
    /\ school_pc = "returned"
    /\ school_result.ok
    /\ majors_pc = "idle"
    /\ majors_data' = school_result.value
    /\ majors_result' = extract_majors_from_school_info(school_result.value)
    /\ majors_pc' = "returned"
    /\ UNCHANGED <<retryVars, docVars, schoolVars, sessVars, streamVars, feVars,
                   uploadVars, chunkVars, pmVars>>

(* The school files of the majors model: two columns, one or two rows (of  *)
(* a table, the header row and one data row).                               *)
MajorCells == {"", "zaidu_zhuanye", "yixiang_zhuanye", "v"}

MajorFiles ==
    [ext : {".txt", ".csv", ".xls", ".xlsx"}, exists : {TRUE},
     rows : SeqsOf([1..SchoolCols -> MajorCells], 1, 2)]

SchoolMajorsInit ==
    /\ school_file \in MajorFiles
    /\ school_result = Raised("None")
    /\ school_pc = "call"

-----------------------------------------------------------------------------
(* Specifications.                                                         *)

InitRetry ==
    RetryInit /\ DocIdle /\ SchoolIdle /\ SessIdle /\ StreamIdle /\ FeIdle
    /\ UploadIdle /\ ChunkIdle /\ PmIdle /\ MajorIdle
SpecRetry == InitRetry /\ [][RetryNext]_vars

DocNext == ReadDocument
InitDoc ==
    DocInit /\ RetryIdle /\ SchoolIdle /\ SessIdle /\ StreamIdle /\ FeIdle
    /\ UploadIdle /\ ChunkIdle /\ PmIdle /\ MajorIdle
SpecDoc == InitDoc /\ [][DocNext]_vars

SchoolNext == ReadSchoolInfo
InitSchool ==
    SchoolInit /\ RetryIdle /\ DocIdle /\ SessIdle /\ StreamIdle /\ FeIdle
    /\ UploadIdle /\ ChunkIdle /\ PmIdle /\ MajorIdle
SpecSchool == InitSchool /\ [][SchoolNext]_vars

InitSession ==
    SessInit /\ RetryIdle /\ DocIdle /\ SchoolIdle /\ StreamIdle /\ FeIdle
    /\ UploadIdle /\ ChunkIdle /\ PmIdle /\ MajorIdle
(* Either reader, called once on a file. *)
InitReaders ==
    /\ \/ DocInit /\ SchoolIdle
       \/ SchoolInit /\ DocIdle
    /\ RetryIdle /\ SessIdle /\ StreamIdle /\ FeIdle /\ UploadIdle /\ ChunkIdle /\ PmIdle /\ MajorIdle
ReadersNext == ReadDocument \/ ReadSchoolInfo
SpecReaders == InitReaders /\ [][ReadersNext]_vars

SpecSession == InitSession /\ [][SessNext]_vars

InitUpload ==
    UploadInit /\ RetryIdle /\ DocIdle /\ SchoolIdle /\ SessIdle /\ StreamIdle /\ FeIdle
    /\ ChunkIdle /\ PmIdle /\ MajorIdle
SpecUpload == InitUpload /\ [][UploadNext]_vars

InitChunks ==
    ChunkInit /\ RetryIdle /\ DocIdle /\ SchoolIdle /\ SessIdle /\ StreamIdle /\ FeIdle
    /\ UploadIdle /\ PmIdle /\ MajorIdle
SpecChunks == InitChunks /\ [][ChunkNext]_vars

InitMaterials ==
    PmInit /\ RetryIdle /\ DocIdle /\ SchoolIdle /\ SessIdle /\ StreamIdle /\ FeIdle
    /\ UploadIdle /\ ChunkIdle /\ MajorIdle
SpecMaterials == InitMaterials /\ [][PmNext]_vars

InitMajors ==
    MajorInit /\ RetryIdle /\ DocIdle /\ SchoolIdle /\ SessIdle /\ StreamIdle /\ FeIdle
    /\ UploadIdle /\ ChunkIdle /\ PmIdle
MajorsNext == ExtractMajors
SpecMajors == InitMajors /\ [][MajorsNext]_vars

InitSchoolMajors ==
    SchoolMajorsInit /\ MajorIdle /\ RetryIdle /\ DocIdle /\ SessIdle /\ StreamIdle
    /\ FeIdle /\ UploadIdle /\ ChunkIdle /\ PmIdle
SchoolMajorsNext == ReadSchoolInfo \/ ExtractFromSchoolInfo
SpecSchoolMajors == InitSchoolMajors /\ [][SchoolMajorsNext]_vars

InitResponses ==
    ResponsesInit /\ FeIdle /\ RetryIdle /\ DocIdle /\ SchoolIdle /\ SessIdle
    /\ UploadIdle /\ ChunkIdle /\ PmIdle /\ MajorIdle
SpecResponses == InitResponses /\ [][ResponsesNext]_vars

InitStream ==
    StreamInit /\ FeInit /\ RetryIdle /\ DocIdle /\ SchoolIdle /\ SessIdle
    /\ UploadIdle /\ ChunkIdle /\ PmIdle /\ MajorIdle
SpecStream == InitStream /\ [][StreamNext]_vars

-----------------------------------------------------------------------------
(* Properties of call_ai_with_retry_stream, checked under SpecRetry.        *)

LogIndex(ev) == {i \in 1..Len(call_log) : call_log[i].ev = ev}
Attempts == Cardinality(LogIndex("attempt"))
Failures == Cardinality(LogIndex("fail"))
Sleeps == SelectSeq(call_log, LAMBDA e : e.ev = "sleep")

(* What the running (or last) attempt has yielded. *)
AttemptYielded == SubSeq(yielded, attempt_from + 1, Len(yielded))

(* C2: one call makes at most max_retries attempts; when every attempt has
   failed it raises an exception naming the last attempt's error; and it
   returns normally only from an attempt that completed with content. *)
C2_BoundedAttempts ==
    /\ Attempts <= max_retries
    /\ call_pc = "raised" =>
          /\ Attempts = max_retries
          /\ Failures = Attempts
          /\ call_log[Len(call_log)].ev = "fail"
          /\ raised_error = call_log[Len(call_log)].err
          /\ raised_error # "None"
    /\ call_pc = "done" =>
          /\ Failures = Attempts - 1
          /\ content_received
          /\ raised_error = "None"

C2_Witness ==
    /\ call_pc = "raised"
    /\ max_retries = DefaultMaxRetries
    /\ Attempts = DefaultMaxRetries
    /\ raised_error = "stalled"
    /\ \E i \in LogIndex("fail") : call_log[i].err = "no_content"

(* C3: after the k-th failed attempt, k < max_retries, the call sleeps 2^k
   seconds and only then starts attempt k+1; after the last failed attempt
   (k = max_retries) it does not sleep. *)
C3_Backoff ==
    /\ \A i \in LogIndex("fail") :
          IF call_log[i].n < max_retries
          THEN /\ i + 1 <= Len(call_log)
               /\ call_log[i + 1].ev = "sleep"
               /\ call_log[i + 1].n = 2 ^ call_log[i].n
               /\ i + 2 <= Len(call_log) =>
                     /\ call_log[i + 2].ev = "attempt"
                     /\ call_log[i + 2].n = call_log[i].n + 1
          ELSE i = Len(call_log)
    /\ \A i \in LogIndex("sleep") : i > 1 /\ call_log[i - 1].ev = "fail"
    /\ \A i \in LogIndex("attempt") : i > 1 => call_log[i - 1].ev = "sleep"
    /\ max_retries = DefaultMaxRetries /\ call_pc = "raised" =>
          [i \in 1..Len(Sleeps) |-> Sleeps[i].n] = <<2, 4>>

C3_Witness ==
    /\ call_pc = "raised"
    /\ max_retries = DefaultMaxRetries
    /\ [i \in 1..Len(Sleeps) |-> Sleeps[i].n] = <<2, 4>>
    /\ call_log[Len(call_log)].ev = "fail"

(* C4: during an attempt, once more than 180 seconds have passed without new
   text from the endpoint (silence, or only empty chunks), the next thing the
   wrapper does with the stream ends the attempt as a failed attempt, to be
   retried. The claim also names the error, 'Connection stalled'; the formula
   asks only that the attempt fails, so an attempt that fails with another
   error does not count against it. Steps in which only time passes are not
   the wrapper's. *)
C4_StallDetected ==
    [][ ( /\ call_pc = "stream"
          /\ now - last_text_time > StallLimit
          /\ (now' = now \/ call_pc' # "stream") )
        => retry_count' = retry_count + 1 ]_vars

(* C5: within one attempt the non-empty fragments yielded to the caller are
   exactly the non-empty fragments the endpoint delivered, in arrival order. *)
C5_FragmentsForwarded ==
    SelectSeq(AttemptYielded, Truthy) = Fragments(delivered)

-----------------------------------------------------------------------------
(* Properties of read_school_info, checked under SpecSchool.               *)

IsTable(f) == f.exists /\ f.ext \in {".csv", ".xls", ".xlsx"}

(* The values that stand directly below a header of H in the file. *)
BelowHeader(rows, H) ==
    {rows[r + 1][c] : <<r, c>> \in
        {rc \in (1..(Len(rows) - 1)) \X (1..SchoolCols) :
            rows[rc[1]][rc[2]] \in H /\ rows[rc[1] + 1][rc[2]] # ""}}

(* C8: for a .csv/.xls/.xlsx file, when a cell in any row of the file, the
   first row included, holds a current-major (target-major) header and the
   cell below it is not empty, the returned mapping's zaidu_zhuanye
   (shenqing_zhuanye) entry is a value found directly below such a header. *)
C8_HeaderFound ==
    (school_pc = "returned" /\ IsTable(school_file)) =>
        /\ BelowHeader(school_file.rows, CurrentHeaders) # {} =>
              /\ school_result.ok
              /\ "zaidu_zhuanye" \in DOMAIN school_result.value
              /\ school_result.value["zaidu_zhuanye"]
                    \in BelowHeader(school_file.rows, CurrentHeaders)
        /\ BelowHeader(school_file.rows, TargetHeaders) # {} =>
              /\ school_result.ok
              /\ "shenqing_zhuanye" \in DOMAIN school_result.value
              /\ school_result.value["shenqing_zhuanye"]
                    \in BelowHeader(school_file.rows, TargetHeaders)

(* C9: for a .csv/.xls/.xlsx file in which no recognised header has a
   non-empty cell directly below it, the result is exactly the default
   mapping {zaidu_zhuanye: A_zhuanye, shenqing_zhuanye: B_zhuanye}. *)
C9_DefaultMapping ==
    ( /\ school_pc = "returned"
      /\ IsTable(school_file)
      /\ BelowHeader(school_file.rows, KeyFields) = {} )
    => ( /\ school_result.ok
         /\ school_result.value = DefaultData
         /\ school_result.value["zaidu_zhuanye"] = "A_zhuanye"
         /\ school_result.value["shenqing_zhuanye"] = "B_zhuanye" )

(* A header in a data row with an empty cell below it, and nothing found. *)
C9_Witness ==
    /\ school_pc = "returned"
    /\ IsTable(school_file)
    /\ Len(school_file.rows) = 3
    /\ school_file.rows[2][1] = "zaidu_zhuanye"
    /\ school_file.rows[3][1] = ""
    /\ school_file.rows[3][2] = "v"
    /\ BelowHeader(school_file.rows, KeyFields) = {}
    /\ school_result.value = DefaultData

-----------------------------------------------------------------------------
(* Properties of read_document, checked under SpecDoc.                     *)

(* C10: read_document on an existing .txt file returns the file's text
   unchanged, as it returns the extracted text for .docx and .doc files. *)
C10_TxtReturned ==
    (doc_pc = "returned" /\ doc_file.exists /\ doc_file.ext = ".txt") =>
        /\ doc_result.ok
        /\ doc_result.value = doc_file.text

-----------------------------------------------------------------------------
(* Properties of the sessions, checked under SpecSession.                  *)

(* What reading the materials with tag t returns. *)
ExpectedTexts(t) ==
    <<DocumentText(DocumentOf(t)), DocumentText(DocumentOf(t)),
      TableBranch(RowsOf(t))>>

(* C1: a /generate_ps request carrying session id S reads exactly the
   resume, questionnaire and school-info contents uploaded in an
   /analyze_stream request that registered S, whatever requests of other
   sessions ran between the two phases. *)
C1_SessionReadsOwnFiles ==
    (gen_result.status = 200 /\ gen_result.sid \in announced) =>
        gen_result.texts \in {ExpectedTexts(t) : t \in uploaded[gen_result.sid]}

-----------------------------------------------------------------------------
(* Properties of the /analyze_stream response and of the front end's run,
   checked under SpecStream.                                               *)

EventIndex(type) == {i \in 1..Len(events) : events[i].type = type}
TextOnly == SelectSeq(events, LAMBDA e : e.type = "text")
ReadableUploads == {u \in Uploads : AllRead(ReadUploads(u))}
FilesRead == an_upload \in ReadableUploads

(* C6: in every /analyze_stream response the session_id event is emitted at
   most once and before any text event: exactly once, as the first event,
   when the three uploaded files were read, and not at all when reading
   them failed, the response then being a single error event; the text
   events are the non-empty chunks of the call in the order the call yielded
   them; an error event, when present, is the last event of the response. *)
C6_EventOrder ==
    /\ Cardinality(EventIndex("session_id")) <= 1
    /\ \A i \in EventIndex("session_id") :
          i = 1 /\ events[i] = SessionEvent(an_session_id)
    /\ EventIndex("text") # {} => events[1].type = "session_id"
    /\ \A i \in EventIndex("error") : i = Len(events) /\ an_pc = "ended"
    /\ an_pc = "calling" => TextOnly = TextEvents(yielded)
    /\ an_pc \in {"calling", "ended"} =>
          /\ FilesRead <=> EventIndex("session_id") = {1}
          /\ ~FilesRead => events = <<ErrorEvent>>

(* C6 as stated: every response that has ended holds exactly one session_id
   event, before any text event, and an error event only as its last. *)
C6_SessionIdAlways ==
    an_pc = "ended" =>
        /\ Cardinality(EventIndex("session_id")) = 1
        /\ \A i \in EventIndex("text") : \E j \in EventIndex("session_id") : j < i
        /\ \A i \in EventIndex("error") : i = Len(events)

(* A response with its session id, text of a failed attempt and, the call
   having given up, the error event at its end. *)
C6_Witness ==
    /\ an_pc = "ended"
    /\ Len(events) >= 3
    /\ events[1] = SessionEvent(an_session_id)
    /\ events[2].type = "text"
    /\ events[Len(events)].type = "error"
    /\ EventIndex("error") = {Len(events)}

(* C7: the front end has sent the /generate_ps request of a run only when
   the run's /analyze_stream response has ended, holds no error event and
   has been read to its end; once the front end has read an error event the
   run has failed and no generation request exists for it. *)
C7_GenerateAfterCleanAnalysis ==
    /\ (fe_pc \in {"generating", "complete"} \/ generation_data # NoGenerationData) =>
          /\ generation_data.run = runs
          /\ an_pc = "ended"
          /\ EventIndex("error") = {}
          /\ fe_pos = Len(events)
          /\ generation_data.analysis = analysis_content
    /\ (\E i \in EventIndex("error") : i <= fe_pos) =>
          /\ fe_pc = "failed"
          /\ generation_data = NoGenerationData

(* The request on its way after an analysis that produced text. *)
C7_Witness ==
    /\ fe_pc = "generating"
    /\ generation_data.run = runs
    /\ an_pc = "ended"
    /\ EventIndex("text") # {}
    /\ Len(generation_data.analysis) >= 1

-----------------------------------------------------------------------------
(* Properties of both readers, checked under SpecReaders.                  *)

DocumentExts == {".txt", ".doc", ".docx"}
SchoolExts == {".txt", ".csv", ".xls", ".xlsx"}

(* C11: read_document raises and returns no text when the file does not
   exist or its extension (in lower case, as the code compares it) is not
   .txt, .doc or .docx; read_school_info raises and returns nothing when the
   file does not exist or its extension is not .txt, .csv, .xls or .xlsx. *)
C11_ReadersReject ==
    /\ (doc_pc = "returned"
        /\ (~doc_file.exists \/ doc_file.ext \notin DocumentExts)) =>
          /\ ~doc_result.ok
          /\ doc_result.value = <<>>
          /\ doc_result.error # "None"
    /\ (school_pc = "returned"
        /\ (~school_file.exists \/ school_file.ext \notin SchoolExts)) =>
          /\ ~school_result.ok
          /\ school_result.value = <<>>
          /\ school_result.error # "None"

(* A school file that exists and is in a format the reader does not take. *)
C11_Witness ==
    /\ school_pc = "returned"
    /\ school_file.exists
    /\ school_file.ext = ".pdf"
    /\ ~school_result.ok
    /\ school_result.error = "duqu_biaoge_shibai: bu_zhichi_de_wenjian_geshi"

-----------------------------------------------------------------------------
(* Properties of /generate_ps and /cleanup, checked under SpecSession.     *)

(* The request gen_result' answers has just been handled. *)
Answered == gen_result' # gen_result /\ gen_result' # NoResult
ParametersMissing(r) == r.analysis = "" \/ r.prompt_template = "" \/ r.sid = NoSession

(* C12: a /generate_ps request in which analysis, prompt_template or
   session_id is missing or empty, or whose session_id is not registered in
   temp_files, is answered with HTTP status 400. *)
C12_BadRequest400 ==
    [][ (Answered /\ (ParametersMissing(gen_result')
                      \/ gen_result'.sid \notin DOMAIN temp_files))
        => gen_result'.status = 400 ]_vars

(* C13: /generate_ps calls the language model only for a request whose
   analysis, prompt_template and session_id are all non-empty, whose session
   id is registered in temp_files and whose three session files were all
   read successfully. *)
C13_ModelCalledOnlyWhenValid ==
    [][ (Answered /\ gen_result'.llm_called)
        => /\ ~ParametersMissing(gen_result')
           /\ gen_result'.sid \in DOMAIN temp_files
           /\ AllRead(ReadSessionFiles(fs, temp_files[gen_result'.sid]))
           /\ gen_result'.status = 200 ]_vars

(* A request that passed every check, and so has the model called. *)
C13_Witness ==
    /\ gen_result.llm_called
    /\ gen_result.status = 200
    /\ gen_result.analysis = "a"
    /\ gen_result.prompt_template = "p"
    /\ gen_result.sid \in DOMAIN temp_files

(* The request cleanup_result' answers has just been handled. *)
CleanedUp == cleanup_result' # cleanup_result /\ cleanup_result' # NoCleanup

(* C14: when POST /cleanup for session S completes, S is not registered in
   temp_files; a /generate_ps with S (its other parameters given) while S is
   not registered is rejected as an invalid session, the model not called;
   /cleanup for an id that is not registered changes neither temp_files nor
   any file; /cleanup answers {status: success} in both cases. *)
C14_CleanupUnregisters ==
    [][ /\ CleanedUp =>
             /\ cleanup_result'.status = "success"
             /\ cleanup_result'.sid \notin DOMAIN temp_files'
             /\ cleanup_result'.sid \notin DOMAIN temp_files =>
                   temp_files' = temp_files /\ fs' = fs
        /\ (Answered /\ ~ParametersMissing(gen_result')
            /\ gen_result'.sid \notin DOMAIN temp_files) =>
             /\ gen_result'.detail = "400: Session expired or invalid"
             /\ gen_result'.status # 200
             /\ ~gen_result'.llm_called ]_vars

(* Session 1 was registered, its files were written, and it has just been
   cleaned up. *)
C14_Witness ==
    /\ cleanup_result = [status |-> "success", sid |-> 1]
    /\ 1 \in announced
    /\ 1 \notin DOMAIN temp_files
    /\ \A path \in Paths : fs[path] = 0

-----------------------------------------------------------------------------
(* Properties of /upload, checked under SpecUpload.                        *)

(* Request c finishes in this step. *)
Finishes(c) == up_req[c].pc # "done" /\ up_req'[c].pc = "done"

(* The files request d has opened and not yet read back. *)
StillNeeded(d) ==
    IF up_req[d].pc = "saving"
    THEN {UploadPathsOf(up_req[d])[k] : k \in 1..up_req[d].opened}
    ELSE {}

(* When a request finishes, no file it created is left in the directory. *)
NothingLeft ==
    [][ \A c \in Clients :
          Finishes(c) => \A path \in UploadPaths : up_fs'[path].owner # c ]_vars

(* A finishing request removes no file another request still needs. *)
NothingTaken ==
    [][ \A c \in Clients :
          Finishes(c) =>
             \A d \in Clients \ {c} : \A path \in StillNeeded(d) :
                up_fs[path].owner # 0 => up_fs'[path].owner # 0 ]_vars

(* C15: when a /upload request finishes, with status success or error, none
   of the files it wrote under the uploads directory remains, and it has
   removed no file that a concurrently running /upload request still
   needs. *)
C15_UploadsCleaned == NothingLeft /\ NothingTaken

(* C16: /upload with a school_info file whose extension is not .xls, .xlsx,
   .csv or .txt returns {status: error} without having created any file and
   without calling the language model; every /upload request that has
   finished was answered with HTTP 200 and a status of success or error. *)
C16_UploadErrors ==
    \A c \in Clients :
       up_req[c].pc = "done" =>
          /\ up_req[c].http = 200
          /\ up_req[c].status \in {"success", "error"}
          /\ up_req[c].school_ext \notin {".xls", ".xlsx", ".csv", ".txt"} =>
                /\ up_req[c].status = "error"
                /\ up_req[c].opened = 0
                /\ up_req[c].saved = 0
                /\ ~up_req[c].llm_called
                /\ \A path \in UploadPaths : up_fs[path].owner # c

(* A refused request and, beside it, one that failed after saving files. *)
C16_Witness ==
    \E c, d \in Clients :
       /\ up_req[c].pc = "done"
       /\ up_req[c].school_ext = ".pdf"
       /\ up_req[c].status = "error"
       /\ up_req[d].pc = "done"
       /\ up_req[d].school_ext = ".csv"
       /\ up_req[d].status = "error"
       /\ up_req[d].llm_called

-----------------------------------------------------------------------------
(* Properties of split_text_into_chunks, checked under SpecChunks.          *)

(* C17: every chunk returned by split_text_into_chunks(text,               *)
(* max_chunk_size) is at most max_chunk_size characters long.               *)
C17_ChunkWithinLimit ==
    split_pc = "returned" =>
        \A i \in 1..Len(split_chunks) : Len(split_chunks[i]) <= split_max

-----------------------------------------------------------------------------
(* Properties of process_materials, checked under SpecMaterials.            *)

(* The analyses of the chunks the language model answers, in order. *)
RECURSIVE AnsweredFrom(_)
AnsweredFrom(i) ==
    IF i > pm_chunks THEN <<>>
    ELSE (IF pm_answers[i] = "ok" THEN <<i>> ELSE <<>>) \o AnsweredFrom(i + 1)

(* C18: for a combined text longer than MAX_CHUNK_SIZE, process_materials   *)
(* returns the analyses of its chunks joined in order, leaving out the      *)
(* chunks whose analysis failed.                                            *)
C18_ChunkedAnalysis ==
    (/\ pm_pc = "done"
     /\ pm_len > MAX_CHUNK_SIZE
     /\ AnsweredFrom(1) # <<>>) =>
        /\ pm_result.status = "returned"
        /\ pm_result.analysis = AnsweredFrom(1)

-----------------------------------------------------------------------------
(* Empty streams, checked under SpecRetry.                                  *)

(* The attempt is left, and the stream has delivered no non-empty text. *)
EndsWithoutText ==
    /\ call_pc = "stream"
    /\ call_pc' # "stream"
    /\ Fragments(delivered') = <<>>

(* C19: an attempt of call_ai_with_retry_stream whose stream ends without   *)
(* having delivered any non-empty text is counted as a failed attempt and   *)
(* retried under the retry limit, whatever the model.                       *)
C19_EmptyStreamFails ==
    [][EndsWithoutText =>
          /\ retry_count' = retry_count + 1
          /\ call_pc' \in {"loop", "raised"}
          /\ call_pc' = "loop" <=> retry_count' < max_retries]_vars

-----------------------------------------------------------------------------
(* The session id of a run, checked under SpecStream.                       *)

(* C20: the session_id the front end sends in a /generate_ps request is    *)
(* the one issued in the session_id event of the /analyze_stream response  *)
(* of the same run.                                                         *)
C20_SessionIdOfSameRun ==
    generation_data # NoGenerationData =>
        /\ SessionEvent(an_session_id) \in {events[i] : i \in 1..Len(events)}
        /\ generation_data.session_id = an_session_id

-----------------------------------------------------------------------------
(* Properties of extract_majors_from_school_info.                           *)

(* The value of the first of the keys that has a non-empty value in d, and *)
(* the default when none has.                                               *)
RECURSIVE FirstNonEmpty(_, _, _)
FirstNonEmpty(d, keys, default) ==
    IF keys = <<>> THEN default
    ELSE IF Head(keys) \in DOMAIN d /\ d[Head(keys)] # "" THEN d[Head(keys)]
         ELSE FirstNonEmpty(d, Tail(keys), default)

(* C21: the current major is the first non-empty of zaidu_zhuanye,          *)
(* benke_zhuanye, dangqian_zhuanye, or A_zhuanye when there is none; the    *)
(* target major is the first non-empty of shenqing_zhuanye, mubiao_zhuanye, *)
(* yixiang_zhuanye, or B_zhuanye when there is none. Under SpecMajors.      *)
C21_MajorsByPriority ==
    majors_pc = "returned" =>
        /\ majors_result[1] =
              FirstNonEmpty(majors_data,
                            <<"zaidu_zhuanye", "benke_zhuanye", "dangqian_zhuanye">>,
                            "A_zhuanye")
        /\ majors_result[2] =
              FirstNonEmpty(majors_data,
                            <<"shenqing_zhuanye", "mubiao_zhuanye", "yixiang_zhuanye">>,
                            "B_zhuanye")

(* C28: for every supported school-info file, the majors extracted from    *)
(* what read_school_info returns are two non-empty strings. Under           *)
(* SpecSchoolMajors.                                                        *)
C28_MajorsNeverEmpty ==
    (majors_pc = "returned" /\ school_pc = "returned") =>
        /\ majors_result[1] # ""
        /\ majors_result[2] # ""

-----------------------------------------------------------------------------
(* The chunks and the text, checked under SpecChunks.                       *)

(* The chunks put together again with a blank line between them. *)
RECURSIVE Rejoined(_)
Rejoined(chunks) ==
    IF chunks = <<>> THEN <<>>
    ELSE IF Len(chunks) = 1 THEN chunks[1]
         ELSE chunks[1] \o <<"\n", "\n">> \o Rejoined(Tail(chunks))

(* C29: the chunks returned by split_text_into_chunks, joined with a blank *)
(* line, are the input text, and the list returned is never empty.          *)
C29_ChunksRejoin ==
    split_pc = "returned" =>
        /\ split_chunks # <<>>
        /\ Rejoined(split_chunks) = split_text

(* A text with a blank line in it has been split into several chunks. *)
C29_Witness ==
    /\ split_pc = "returned"
    /\ Len(split_chunks) >= 2
    /\ \E i \in 1..Len(split_chunks) : Len(split_chunks[i]) >= 1
    /\ Rejoined(split_chunks) = split_text

-----------------------------------------------------------------------------
(* What the caller of call_ai_with_retry_stream ends up with, checked      *)
(* under SpecRetry.                                                         *)

(* The non-empty strings of a sequence: their concatenation is the text. *)
TextOfYields(chunks) == SelectSeq(chunks, Truthy)

(* C23: when call_ai_with_retry_stream completes successfully, the text of *)
(* everything it yielded is the text of the successful attempt alone.       *)
C23_OnlySuccessfulAttempt ==
    call_pc = "done" =>
        TextOfYields(yielded)
            = TextOfYields(SubSeq(yielded, attempt_from + 1, Len(yielded)))

-----------------------------------------------------------------------------
(* The analysis text of the front end, checked under SpecStream.            *)

(* C26: the analysis text the front end accumulates and sends to            *)
(* /generate_ps consists of text events only; the session_id event is      *)
(* never appended to it.                                                    *)
C26_AnalysisIsTextOnly ==
    /\ \A i \in 1..Len(analysis_content) : analysis_content[i].type = "text"
    /\ \A i \in 1..Len(generation_data.analysis) :
          generation_data.analysis[i].type = "text"

-----------------------------------------------------------------------------
(* Shutdown, other sessions and session ids, checked under SpecSession.     *)

(* C22: after the shutdown handler cleanup_all has run, temp_files holds   *)
(* no session, whatever requests preceded it and even when deleting a file *)
(* failed.                                                                  *)
C22_ShutdownEmptiesTempFiles == ~running => DOMAIN temp_files = {}

(* The application was shut down with sessions announced, and the school   *)
(* file, whose deletion failed, is still there.                             *)
C22_Witness ==
    /\ ~running
    /\ announced # {}
    /\ fs[SchoolPath] # 0
    /\ fs[PsPath] = 0
    /\ DOMAIN temp_files = {}

(* A /generate_ps for session T can read its three files. *)
Usable(registered, files, T) ==
    /\ T \in DOMAIN registered
    /\ AllRead(ReadSessionFiles(files, registered[T]))

(* C24: cleaning up session S through /cleanup leaves every other          *)
(* registered session T registered, and readable if it was readable.        *)
C24_OtherSessionsUntouched ==
    [][CleanedUp =>
          \A T \in DOMAIN temp_files \ {cleanup_result'.sid} :
              /\ T \in DOMAIN temp_files'
              /\ Usable(temp_files, fs, T) => Usable(temp_files', fs', T)]_vars

(* Request c registers its session in this step. *)
Registers(c) == req[c].pc = "received" /\ req'[c].pc = "registered"

(* C25: two /analyze_stream requests without a session_id are never given *)
(* the same generated session id, and registering a session never          *)
(* overwrites the entry of a session that is registered.                    *)
C25_DistinctSessionIds ==
    [][/\ \A c, d \in Clients :
             (c # d /\ req'[c].pc # "idle" /\ req'[d].pc # "idle") =>
                 req'[c].sid # req'[d].sid
       /\ \A c \in Clients : Registers(c) => req[c].sid \notin DOMAIN temp_files]_vars

-----------------------------------------------------------------------------
(* The streamed responses of both endpoints, checked under SpecResponses.   *)

(* C27: every streamed response of /analyze_stream and of /generate_ps     *)
(* carries at least one text event or an error event before it ends.       *)
C27_TextOrError ==
    an_pc = "ended" =>
        \E i \in 1..Len(events) : events[i].type \in {"text", "error"}

(* A /generate_ps response has ended with an error event and no text. *)
C27_Witness ==
    /\ an_pc = "ended"
    /\ an_session_id = NoSession
    /\ events = <<ErrorEvent>>

====
